---- MODULE Spec2Model ----
(***************************************************************************)
(* Model of the XPS result distribution path:                              *)
(*   - TiledPublisher (src/xps_changes/tiled.py): the store sink,          *)
(*   - XPSWSResultPublisher (src/xps_changes/websockets.py): the broadcast *)
(*     server and its fire-and-forget publish_ws tasks,                    *)
(*   - XPSWebSocketListener (src/xps_changes/xps_websocket_listener.py):   *)
(*     the resilient consumer, attached as client ConsumerId,              *)
(*   - the operator fan-out wired in src/xps_changes/processor_cli.py.     *)
(* A Frame is identified by the index of the event that carried it, so a   *)
(* slice of a store array, a message on a connection and an emitted frame  *)
(* event can be compared for "the same Frame".                             *)
(***************************************************************************)
EXTENDS Integers, Sequences, FiniteSets, TLC

\* ------------------------------------------------------------- bounds
MaxEvents == 3
MaxStoreEvents == 5
MaxFail == 1
MaxConn == 2
MaxPending == 2

\* ---------------------------------------------------------- constants
ScanNames == {"s1", "s2"}
NoneVal == "None"
TiledUri == "tiled_uri"
Clients == {1, 2, 3}
ConsumerId == 1
Viewers == Clients \ {ConsumerId}
GoodPath == "/xps_operator"
Paths == {GoodPath, "/other"}
Gap == 0

ArrayNames == {"integrated_frames", "vfft", "ifft", "shot_sum", "shot_mean"}
EntityOrder ==
  <<"integrated_frames", "vfft", "ifft", "shot_sum", "shot_mean", "detected_peaks">>
EntityNames == {EntityOrder[i] : i \in 1..Len(EntityOrder)}
NumCalls == Len(EntityOrder)

VARIABLES
  \* the instrument-side event stream (history of what was dispatched)
  nEvents, events, runState, runScan, nFail,
  \* TiledPublisher and the store behind runs_node
  store, current_tiled_scan, tiledOutcome, lastOp, lastPatches,
  \* XPSWSResultPublisher
  connected_clients, current_start_message, tasks, failed, conn, connId, sent,
  nConn, joinedAt, wsOutcome,
  \* XPSWebSocketListener
  cpc, should_stop, current_scan_name, current_tiled_url, frame_counter, rcv,
  emitted, sawStart, counterAtStart, needDelay, undelayedAttempt, handled

dispVars == <<nEvents, events, runState, runScan, nFail>>
tiledVars == <<store, current_tiled_scan, tiledOutcome, lastOp, lastPatches>>
wsVars == <<connected_clients, current_start_message, tasks, failed, conn,
            connId, sent, nConn, joinedAt, wsOutcome>>
consVars == <<cpc, should_stop, current_scan_name, current_tiled_url,
              frame_counter, rcv, emitted, sawStart, counterAtStart,
              needDelay, undelayedAttempt, handled>>
vars == <<dispVars, tiledVars, wsVars, consVars>>

\* ------------------------------------------------------------ the store
EmptyNode ==
  [exists |-> FALSE, keys |-> {}, arr |-> [a \in ArrayNames |-> <<>>],
   parts |-> 0, timings |-> 0]

NoScan == [none |-> TRUE, run_node |-> NoneVal, handles |-> {}]

NoPatches == [a \in ArrayNames |-> <<>>]

\* array_client.patch(data, offset=(k,), extend=True): the array is resized to
\* hold index k and the one new slice is written there; the slices between the
\* old end and k, if any, are left unwritten.
Patch(arr, fid, offset) ==
  [i \in 1..(IF offset + 1 > Len(arr) THEN offset + 1 ELSE Len(arr)) |->
     IF i = offset + 1 THEN fid
     ELSE IF i <= Len(arr) THEN arr[i] ELSE Gap]

\* patch_tiiled_frame: offset = shape[0]
FrameOffset(arr) == Len(arr)

\* patch_tiled_array: offset = shape[axis_to_increment] + 1
ArrayOffset(arr) == Len(arr) + 1

PatchOffset(e, arr) ==
  IF e \in {"shot_sum", "shot_mean"} THEN FrameOffset(arr) ELSE ArrayOffset(arr)

\* create_run_container without the test for the name: a container is
\* created whether or not the root holds one of that name
create_run_containerAlways(st, name) ==
  [st EXCEPT ![name] = [EmptyNode EXCEPT !.exists = TRUE]]

\* create_run_container
create_run_container(st, name) ==
  IF ~st[name].exists THEN [st EXCEPT ![name].exists = TRUE] ELSE st

\* create_tiled_table_node: creates and writes the table when the key is new
\* and returns the handle; returns None when the key exists.
create_tiled_table_node(node, name) ==
  IF name \notin node.keys
    THEN [node |-> [node EXCEPT !.keys = @ \cup {name},
                                !.parts = IF name = "detected_peaks" THEN 1 ELSE @,
                                !.timings = IF name = "function_timings" THEN @ + 1 ELSE @],
          handle |-> TRUE]
    ELSE [node |-> node, handle |-> FALSE]

\* create_data_nodes from its i-th backend call on. failAt names the call on
\* which the backend raises (0: none). write_array on a key the run node
\* already holds is refused by the store.
RECURSIVE CreateFrom(_, _, _, _, _)
CreateFrom(i, node, handles, fid, failAt) ==
  IF i > NumCalls THEN [node |-> node, handles |-> handles, raised |-> FALSE]
  ELSE IF failAt = i THEN [node |-> node, handles |-> handles, raised |-> TRUE]
  ELSE LET e == EntityOrder[i] IN
    IF e = "detected_peaks"
      THEN LET r == create_tiled_table_node(node, e) IN
           CreateFrom(i + 1, r.node,
                      IF r.handle THEN handles \cup {e} ELSE handles \ {e},
                      fid, failAt)
      ELSE IF e \in node.keys
        THEN [node |-> node, handles |-> handles, raised |-> TRUE]
        ELSE CreateFrom(i + 1,
                        [node EXCEPT !.keys = @ \cup {e}, !.arr[e] = <<fid>>],
                        handles \cup {e}, fid, failAt)

create_data_nodes(node, handles, fid, failAt) ==
  CreateFrom(1, node, handles, fid, failAt)

\* update_tiled_scan from its i-th call on; a None handle raises.
RECURSIVE UpdateFrom(_, _, _, _, _, _)
UpdateFrom(i, node, handles, fid, failAt, patches) ==
  IF i > NumCalls THEN [node |-> node, raised |-> FALSE, patches |-> patches]
  ELSE IF failAt = i \/ EntityOrder[i] \notin handles
    THEN [node |-> node, raised |-> TRUE, patches |-> patches]
  ELSE LET e == EntityOrder[i] IN
    IF e = "detected_peaks"
      THEN UpdateFrom(i + 1, [node EXCEPT !.parts = @ + 1], handles, fid,
                      failAt, patches)
      ELSE LET off == PatchOffset(e, node.arr[e]) IN
           UpdateFrom(i + 1,
                      [node EXCEPT !.arr[e] = Patch(@, fid, off)],
                      handles, fid, failAt,
                      [patches EXCEPT ![e] = <<off, Len(node.arr[e])>>])

update_tiled_scan(node, handles, fid, failAt) ==
  UpdateFrom(1, node, handles, fid, failAt, NoPatches)

\* TiledPublisher.publish: the outcome of handling one event, as a record
\* [store, scan, outcome, op, patches].
TiledStart(scan, failAt) ==
  IF failAt # 0
    THEN [store |-> store, scan |-> current_tiled_scan, outcome |-> "raised",
          op |-> "start", patches |-> NoPatches]
    ELSE [store |-> create_run_container(store, scan),
          scan |-> [none |-> FALSE, run_node |-> scan, handles |-> {}],
          outcome |-> "ok", op |-> "start", patches |-> NoPatches]

TiledStop(failAt) ==
  IF current_tiled_scan.none
    THEN [store |-> store, scan |-> current_tiled_scan, outcome |-> "ok",
          op |-> "stop_ignored", patches |-> NoPatches]
  ELSE IF failAt # 0
    THEN [store |-> store, scan |-> current_tiled_scan, outcome |-> "raised",
          op |-> "stop", patches |-> NoPatches]
    ELSE LET n == current_tiled_scan.run_node
             r == create_tiled_table_node(store[n], "function_timings") IN
         [store |-> [store EXCEPT ![n] = r.node], scan |-> current_tiled_scan,
          outcome |-> "ok", op |-> "stop", patches |-> NoPatches]

TiledResult(fid, failAt) ==
  IF current_tiled_scan.none
    \* None has no attribute integrated_frames
    THEN [store |-> store, scan |-> current_tiled_scan, outcome |-> "raised",
          op |-> "result_no_scan", patches |-> NoPatches]
  ELSE LET n == current_tiled_scan.run_node IN
    IF "integrated_frames" \notin current_tiled_scan.handles
      THEN LET r == create_data_nodes(store[n], current_tiled_scan.handles,
                                      fid, failAt) IN
           [store |-> [store EXCEPT ![n] = r.node],
            scan |-> [current_tiled_scan EXCEPT !.handles = r.handles],
            outcome |-> IF r.raised THEN "raised" ELSE "ok",
            op |-> "create", patches |-> NoPatches]
      ELSE LET r == update_tiled_scan(store[n], current_tiled_scan.handles,
                                      fid, failAt) IN
           [store |-> [store EXCEPT ![n] = r.node],
            scan |-> current_tiled_scan,
            outcome |-> IF r.raised THEN "raised" ELSE "ok",
            op |-> "append", patches |-> r.patches]

TiledPublish(kind, scan, fid, failAt) ==
  CASE kind = "start" -> TiledStart(scan, failAt)
    [] kind = "stop" -> TiledStop(failAt)
    [] OTHER -> TiledResult(fid, failAt)

\* ------------------------------------------------- the broadcast server
NoStart == [scan_name |-> NoneVal, ev |-> 0]

\* NewTasks with a one-frame warm-up on the broadcast side: the first Result
\* after a Start is not handed to any client.
NewTasksWarmUp(kind, scan, fid) ==
  IF kind = "result" /\ nEvents >= 1 /\ events[nEvents].kind = "start"
    THEN {}
    ELSE {[client |-> c, cid |-> connId[c], ev |-> fid, kind |-> kind,
             scan |-> scan, pc |-> "new"] :
            c \in connected_clients}

\* XPSWSResultPublisher.publish: one publish_ws coroutine per connected client,
\* handed to asyncio.gather and not awaited.
NewTasks(kind, scan, fid) ==
  {[client |-> c, cid |-> connId[c], ev |-> fid, kind |-> kind,
             scan |-> scan, pc |-> "new"] :
     c \in connected_clients}

\* FanOut with the store sink served first and its error ending the event
FanOutStoreFirst(kind, scan, fid, storeOutcome) ==
  IF storeOutcome = "raised"
    THEN {}
    ELSE {[client |-> c, cid |-> connId[c], ev |-> fid, kind |-> kind,
             scan |-> scan, pc |-> "new"] :
            c \in connected_clients}

\* operator.add_publisher(ws_publisher) precedes add_publisher(tiled_pub): the
\* broadcast of an event is handed out before the store sink handles it, so
\* the store's outcome for the event has no part in it.
FanOut(kind, scan, fid, storeOutcome) == NewTasks(kind, scan, fid)

\* The dispatcher logs a sink's error and goes on with the next event.
ContinuesAfterSinkError == TRUE

\* publish returns without awaiting the gathered sends: nothing a send does
\* reaches the caller.
PublishOutcome == "ok"

\* Runnable with the clients awaited one after the other: a task waits for the
\* tasks of the same event that serve the clients before it.
RunnableInTurn(t) ==
  /\ t \in tasks
  /\ \A u \in tasks : u.ev = t.ev => u.client >= t.client

\* A publish_ws task may run whenever the event loop picks it: it waits for no
\* other client's task.
Runnable(t) == t \in tasks

\* client.send on a connection that is no longer open raises ConnectionClosed.
\* The task holds the connection it was created for, not a later one of the
\* same client.
CanSend(t) == conn[t.client] = "open" /\ connId[t.client] = t.cid

StartHeader(t) == [kind |-> "start", ev |-> t.ev, scan |-> t.scan]

\* the text message of a Result: scan_name is read from current_start_message
MetaMessage(t) ==
  [kind |-> "meta", ev |-> t.ev, scan |-> current_start_message.scan_name]

BinMessage(t) == [kind |-> "bin", ev |-> t.ev, scan |-> NoneVal]

\* FirstMessage with the packed images sent ahead of the text message
FirstMessageBinary(t) == [kind |-> "bin", ev |-> t.ev, scan |-> NoneVal]

\* publish_ws sends the text message, then the packed images
FirstMessage(t) == MetaMessage(t)

SecondMessage(t) == BinMessage(t)

\* ------------------------------------------------------------- Init
Init ==
  /\ nEvents = 0 /\ events = <<>> /\ runState = "Idle" /\ runScan = NoneVal /\ nFail = 0
  /\ store = [s \in ScanNames |-> EmptyNode]
  /\ current_tiled_scan = NoScan
  /\ tiledOutcome = "ok" /\ lastOp = "init" /\ lastPatches = NoPatches
  /\ connected_clients = {}
  /\ current_start_message = NoStart
  /\ tasks = {} /\ failed = {}
  /\ conn = [c \in Clients |-> "closed"]
  /\ connId = [c \in Clients |-> 0]
  /\ sent = [c \in Clients |-> <<>>]
  /\ nConn = 0
  /\ joinedAt = [c \in Clients |-> 0]
  /\ wsOutcome = "ok"
  /\ cpc = "top" /\ should_stop = FALSE
  /\ current_scan_name = NoneVal /\ current_tiled_url = NoneVal
  /\ frame_counter = 0 /\ rcv = 0 /\ emitted = <<>> /\ sawStart = FALSE
  /\ counterAtStart = 0
  /\ needDelay = FALSE /\ undelayedAttempt = FALSE
  /\ handled = "none"

\* ---------------------------------------------------- the dispatcher
\* One event handed to the publishers in the order they were added
\* (ws_publisher, then tiled_pub). The first step of every publish_ws task of
\* the previous event has run by then: asyncio runs ready callbacks in order.
\* Events arrive no faster than the sends drain: at most MaxPending tasks of
\* earlier events are still waiting for pack_images.
Dispatch(kind, scan, failAt) ==
  /\ \A t \in tasks : t.pc # "new"
  /\ Cardinality(tasks) <= MaxPending
  /\ tiledOutcome = "raised" => ContinuesAfterSinkError
  /\ failAt # 0 => nFail < MaxFail
  /\ LET fid == nEvents + 1
         r == TiledPublish(kind, scan, fid, failAt) IN
       /\ nEvents' = fid
       /\ events' = Append(events, [kind |-> kind, scan |-> scan])
       /\ nFail' = IF failAt # 0 THEN nFail + 1 ELSE nFail
       /\ runState' = CASE kind = "start" -> "Active"
                        [] kind = "stop" -> "Idle"
                        [] OTHER -> runState
       /\ runScan' = CASE kind = "start" -> scan
                       [] kind = "stop" -> NoneVal
                       [] OTHER -> runScan
       /\ tasks' = tasks \cup FanOut(kind, scan, fid, r.outcome)
       /\ wsOutcome' = PublishOutcome
       /\ store' = r.store
       /\ current_tiled_scan' = r.scan
       /\ tiledOutcome' = r.outcome
       /\ lastOp' = r.op
       /\ lastPatches' = r.patches
  /\ UNCHANGED <<connected_clients, current_start_message, failed, conn, connId, sent,
                 nConn, joinedAt>>
  /\ UNCHANGED consVars

\* ------------------------------------------------ publish_ws task steps
\* XPSResultStop: the snapshot is cleared, nothing is sent.
TaskStop(t) ==
  /\ Runnable(t) /\ t.kind = "stop" /\ t.pc = "new"
  /\ current_start_message' = NoStart
  /\ tasks' = tasks \ {t}
  /\ UNCHANGED <<connected_clients, failed, conn, connId, sent, nConn, joinedAt, wsOutcome>>
  /\ UNCHANGED <<dispVars, tiledVars, consVars>>

\* XPSStart: the snapshot is taken, then the header is sent.
TaskStart(t) ==
  /\ Runnable(t) /\ t.kind = "start" /\ t.pc = "new"
  /\ current_start_message' = [scan_name |-> t.scan, ev |-> t.ev]
  /\ tasks' = tasks \ {t}
  /\ IF CanSend(t)
       THEN /\ sent' = [sent EXCEPT ![t.client] = Append(@, StartHeader(t))]
            /\ failed' = failed
       ELSE /\ sent' = sent
            /\ failed' = failed \cup {<<t.client, t.ev>>}
  /\ UNCHANGED <<connected_clients, conn, connId, nConn, joinedAt, wsOutcome>>
  /\ UNCHANGED <<dispVars, tiledVars, consVars>>

\* XPSResult, up to the await of pack_images: the text message is sent.
TaskMeta(t) ==
  /\ Runnable(t) /\ t.kind = "result" /\ t.pc = "new"
  /\ IF CanSend(t)
       THEN /\ sent' = [sent EXCEPT ![t.client] = Append(@, FirstMessage(t))]
            /\ tasks' = (tasks \ {t}) \cup {[t EXCEPT !.pc = "pack"]}
            /\ failed' = failed
       ELSE /\ sent' = sent
            /\ tasks' = tasks \ {t}
            /\ failed' = failed \cup {<<t.client, t.ev>>}
  /\ UNCHANGED <<connected_clients, current_start_message, conn, connId, nConn, joinedAt,
                 wsOutcome>>
  /\ UNCHANGED <<dispVars, tiledVars, consVars>>

\* XPSResult, once pack_images returned: the binary message is sent.
TaskBin(t) ==
  /\ Runnable(t) /\ t.kind = "result" /\ t.pc = "pack"
  /\ tasks' = tasks \ {t}
  /\ IF CanSend(t)
       THEN /\ sent' = [sent EXCEPT ![t.client] = Append(@, SecondMessage(t))]
            /\ failed' = failed
       ELSE /\ sent' = sent
            /\ failed' = failed \cup {<<t.client, t.ev>>}
  /\ UNCHANGED <<connected_clients, current_start_message, conn, connId, nConn, joinedAt,
                 wsOutcome>>
  /\ UNCHANGED <<dispVars, tiledVars, consVars>>

TaskStep(t) == TaskStop(t) \/ TaskStart(t) \/ TaskMeta(t) \/ TaskBin(t)

\* ---------------------------------------------------- websocket_handler
\* Accept with the cached start snapshot re-sent to the new connection
AcceptReplay(c) ==
  /\ connected_clients' = connected_clients \cup {c}
  /\ conn' = [conn EXCEPT ![c] = "open"]
  /\ connId' = [connId EXCEPT ![c] = nConn + 1]
  /\ sent' = [sent EXCEPT ![c] =
                IF current_start_message.ev = 0 THEN <<>>
                ELSE <<[kind |-> "start", ev |-> current_start_message.ev,
                        scan |-> current_start_message.scan_name]>>]
  /\ joinedAt' = [joinedAt EXCEPT ![c] = nEvents]

\* self.connected_clients.add(websocket): nothing is sent on accepting.
Accept(c) ==
  /\ connected_clients' = connected_clients \cup {c}
  /\ conn' = [conn EXCEPT ![c] = "open"]
  /\ connId' = [connId EXCEPT ![c] = nConn + 1]
  /\ sent' = [sent EXCEPT ![c] = <<>>]
  /\ joinedAt' = [joinedAt EXCEPT ![c] = nEvents]

\* websocket_handler without the path test: a request on any path is accepted
websocket_handlerAnyPath(c, path) ==
  /\ conn[c] = "closed"
  /\ nConn < MaxConn
  /\ nConn' = nConn + 1
  /\ Accept(c)
  /\ UNCHANGED <<current_start_message, tasks, failed, wsOutcome>>
  /\ UNCHANGED <<dispVars, tiledVars, consVars>>

\* websocket.request.path is tested first: on any other path the handler
\* returns and the connection is closed; otherwise the connection is added.
websocket_handler(c, path) ==
  /\ conn[c] = "closed"
  /\ nConn < MaxConn
  /\ nConn' = nConn + 1
  /\ IF path # GoodPath
       THEN UNCHANGED <<connected_clients, conn, connId, sent, joinedAt>>
       ELSE Accept(c)
  /\ UNCHANGED <<current_start_message, tasks, failed, wsOutcome>>
  /\ UNCHANGED <<dispVars, tiledVars, consVars>>

\* The connection of c ends (either side, cleanly or not); the handler's
\* wait_closed has not returned yet. The consumer's receive loop ends with it:
\* a clean closure ends the iteration, any other raises ConnectionClosed.
ConnectionLost(c, clean) ==
  /\ conn[c] = "open"
  /\ conn' = [conn EXCEPT ![c] = "closing"]
  /\ connId' = connId
  /\ IF c = ConsumerId /\ cpc = "connected"
       THEN /\ cpc' = IF clean THEN "top" ELSE "sleeping"
            /\ needDelay' = TRUE
       ELSE UNCHANGED <<cpc, needDelay>>
  /\ UNCHANGED <<should_stop, current_scan_name, current_tiled_url, frame_counter,
                 rcv, emitted, sawStart, counterAtStart, undelayedAttempt,
                 handled>>
  /\ UNCHANGED <<connected_clients, current_start_message, tasks, failed, sent,
                 nConn, joinedAt, wsOutcome>>
  /\ UNCHANGED <<dispVars, tiledVars>>

\* finally: self.connected_clients.remove(websocket)
HandlerFinally(c) ==
  /\ conn[c] = "closing"
  /\ conn' = [conn EXCEPT ![c] = "closed"]
  /\ connId' = connId
  /\ connected_clients' = connected_clients \ {c}
  \* the connection object is gone, and what was recorded about it with it
  /\ sent' = [sent EXCEPT ![c] = <<>>]
  /\ joinedAt' = [joinedAt EXCEPT ![c] = 0]
  /\ failed' = {f \in failed : f[1] # c}
  /\ UNCHANGED <<current_start_message, tasks, nConn, wsOutcome>>
  /\ UNCHANGED <<dispVars, tiledVars, consVars>>

\* ------------------------------------------------ XPSWebSocketListener
\* HandleStart with the frame counter carried over from the previous session
HandleStartKeepCounter(m) ==
  /\ current_scan_name' = m.scan
  /\ current_tiled_url' = TiledUri
  /\ frame_counter' = frame_counter
  /\ emitted' = <<>>
  /\ sawStart' = TRUE
  /\ counterAtStart' = frame_counter

\* _handle_message on a text message carrying msg_type "start"
HandleStart(m) ==
  /\ current_scan_name' = m.scan
  /\ current_tiled_url' = TiledUri
  /\ frame_counter' = 0
  /\ emitted' = <<>>
  /\ sawStart' = TRUE
  /\ counterAtStart' = frame_counter

\* _handle_message on a text message carrying frame_number
HandleMeta(m) ==
  /\ current_tiled_url' = TiledUri
  /\ current_scan_name' = m.scan
  /\ UNCHANGED <<frame_counter, emitted, sawStart, counterAtStart>>

\* the RawFrameEvent built for a binary message: the locator's base address,
\* scan name and leading slice, and the frame number
FrameEvent(m) ==
  [frame_number |-> frame_counter, base |-> current_tiled_url,
   scan |-> current_scan_name, entity |-> "shot_mean",
   lo |-> frame_counter, hi |-> frame_counter + 1, ev |-> m.ev]

\* what a received message turns out to hold, and what the operator does with
\* the frame event: "undecodable" (json.loads or msgpack.unpackb raises),
\* "no_sample" (a binary message without shot_mean, width or height),
\* "process_raises" (operator.process raises)
Faults == {"none", "undecodable", "no_sample", "process_raises"}

\* HandleBin with the counter incremented once operator.process has returned
HandleBinCountAfter(m, processed) ==
  /\ emitted' = Append(emitted, FrameEvent(m))
  /\ frame_counter' = IF processed THEN frame_counter + 1 ELSE frame_counter
  /\ UNCHANGED <<current_scan_name, current_tiled_url, sawStart, counterAtStart>>

\* _handle_message on a binary message that holds the sample and its
\* dimensions: the frame event is built, the counter incremented, and the event
\* handed to operator.process, which returns (processed) or raises.
HandleBin(m, processed) ==
  /\ emitted' = Append(emitted, FrameEvent(m))
  /\ frame_counter' = frame_counter + 1
  /\ UNCHANGED <<current_scan_name, current_tiled_url, sawStart, counterAtStart>>

\* _handle_message left before anything was assigned: an exception raised by
\* the decoding, or the return of the discard
HandleNothing ==
  UNCHANGED <<current_scan_name, current_tiled_url, frame_counter, emitted,
              sawStart, counterAtStart>>

\* _handle_message; handled records how the call ended
_handle_message(m, f) ==
  CASE f = "undecodable" -> HandleNothing /\ handled' = "raised"
    [] f = "none" /\ m.kind = "start" -> HandleStart(m) /\ handled' = "start"
    [] f = "none" /\ m.kind = "meta" -> HandleMeta(m) /\ handled' = "meta"
    [] f = "no_sample" /\ m.kind = "bin" ->
         HandleNothing /\ handled' = "discard"
    [] f = "none" /\ m.kind = "bin" -> HandleBin(m, TRUE) /\ handled' = "emit"
    [] f = "process_raises" /\ m.kind = "bin" ->
         HandleBin(m, FALSE) /\ handled' = "emit_raised"
    [] OTHER -> FALSE

\* LoopBody without the try: an exception of _handle_message leaves the
\* receive loop and the connection, and start() sleeps before reconnecting
LoopBodyUnguarded(m, f) ==
  /\ _handle_message(m, f)
  /\ IF f \in {"undecodable", "process_raises"}
       THEN /\ cpc' = "sleeping"
            /\ conn' = [conn EXCEPT ![ConsumerId] =
                          IF @ = "open" THEN "closing" ELSE @]
            /\ needDelay' = TRUE
       ELSE UNCHANGED <<cpc, conn, needDelay>>

\* the body of the receive loop: try _handle_message, except Exception: log
LoopBody(m, f) ==
  /\ _handle_message(m, f)
  /\ UNCHANGED <<cpc, conn, needDelay>>

\* start(): the while test passed and websockets.connect succeeded. The new
\* connection is served by websocket_handler on the fixed path.
ConsumerConnect ==
  /\ cpc = "top" /\ ~should_stop
  /\ conn[ConsumerId] = "closed"
  /\ nConn < MaxConn
  /\ nConn' = nConn + 1
  /\ Accept(ConsumerId)
  /\ cpc' = "connected"
  /\ rcv' = 0
  /\ undelayedAttempt' = (undelayedAttempt \/ needDelay)
  /\ needDelay' = FALSE
  /\ handled' = "none"
  /\ UNCHANGED <<should_stop, current_scan_name, current_tiled_url, frame_counter,
                 emitted, sawStart, counterAtStart>>
  /\ UNCHANGED <<current_start_message, tasks, failed, wsOutcome>>
  /\ UNCHANGED <<dispVars, tiledVars>>

\* start(): websockets.connect raised; except Exception: sleep(5)
ConsumerConnectFail ==
  /\ cpc = "top" /\ ~should_stop
  /\ nConn < MaxConn
  /\ nConn' = nConn + 1
  /\ cpc' = "sleeping"
  /\ undelayedAttempt' = (undelayedAttempt \/ needDelay)
  /\ needDelay' = TRUE
  /\ UNCHANGED <<should_stop, current_scan_name, current_tiled_url, frame_counter,
                 rcv, emitted, sawStart, counterAtStart, handled>>
  /\ UNCHANGED <<connected_clients, current_start_message, tasks, failed, conn, connId,
                 sent, joinedAt, wsOutcome>>
  /\ UNCHANGED <<dispVars, tiledVars>>

\* await asyncio.sleep(5) returned
SleepDone ==
  /\ cpc = "sleeping"
  /\ cpc' = "top"
  /\ needDelay' = FALSE
  /\ UNCHANGED <<should_stop, current_scan_name, current_tiled_url, frame_counter,
                 rcv, emitted, sawStart, counterAtStart, undelayedAttempt,
                 handled>>
  /\ UNCHANGED <<dispVars, tiledVars, wsVars>>

\* the while test fails: start() returns
ConsumerExit ==
  /\ cpc = "top" /\ should_stop
  /\ cpc' = "done"
  /\ UNCHANGED <<should_stop, current_scan_name, current_tiled_url, frame_counter,
                 rcv, emitted, sawStart, counterAtStart, needDelay, undelayedAttempt,
                 handled>>
  /\ UNCHANGED <<dispVars, tiledVars, wsVars>>

\* async for message in websocket: the next message of the connection
ConsumerRecv ==
  /\ cpc = "connected"
  /\ rcv < Len(sent[ConsumerId])
  /\ rcv' = rcv + 1
  /\ IF should_stop
       THEN \* break: the connection is closed on leaving the async with
            /\ cpc' = "top"
            /\ conn' = [conn EXCEPT ![ConsumerId] =
                          IF @ = "open" THEN "closing" ELSE @]
            /\ UNCHANGED <<current_scan_name, current_tiled_url, frame_counter,
                           emitted, sawStart, counterAtStart, needDelay,
                           handled>>
       ELSE \E f \in Faults : LoopBody(sent[ConsumerId][rcv + 1], f)
  /\ UNCHANGED <<should_stop, undelayedAttempt, connId>>
  /\ UNCHANGED <<connected_clients, current_start_message, tasks, failed, sent,
                 nConn, joinedAt, wsOutcome>>
  /\ UNCHANGED <<dispVars, tiledVars>>

\* stop()
ConsumerStop ==
  /\ ~should_stop
  /\ should_stop' = TRUE
  /\ UNCHANGED <<cpc, current_scan_name, current_tiled_url, frame_counter, rcv,
                 emitted, sawStart, counterAtStart, needDelay, undelayedAttempt,
                 handled>>
  /\ UNCHANGED <<dispVars, tiledVars, wsVars>>

\* ------------------------------------------------------------- Next
\* events of the store sink alone, any backend call of which may fail
DispatchStart ==
  /\ nEvents < MaxStoreEvents
  /\ \E s \in ScanNames, f \in 0..1 : Dispatch("start", s, f)

DispatchResult ==
  /\ nEvents < MaxStoreEvents
  /\ \E f \in 0..NumCalls : Dispatch("result", NoneVal, f)

DispatchStop ==
  /\ nEvents < MaxStoreEvents
  /\ \E f \in 0..1 : Dispatch("stop", NoneVal, f)

\* events the store handles without a backend failure
DispatchOk ==
  /\ nEvents < MaxEvents
  /\ \/ \E s \in ScanNames : Dispatch("start", s, 0)
     \/ Dispatch("result", NoneVal, 0)
     \/ Dispatch("stop", NoneVal, 0)

\* events on which a backend call of the store fails
DispatchFail ==
  /\ nEvents < MaxEvents
  /\ \/ \E s \in ScanNames : Dispatch("start", s, 1)
     \/ \E f \in 1..NumCalls : Dispatch("result", NoneVal, f)
     \/ Dispatch("stop", NoneVal, 1)

OneViewer == CHOOSE v \in Viewers : \A w \in Viewers : v <= w

OneViewerConnect == \E p \in Paths : websocket_handler(OneViewer, p)

RunTask == \E t \in tasks : TaskStep(t)

ViewerConnect == \E c \in Viewers, p \in Paths : websocket_handler(c, p)

ViewerLost == \E c \in Viewers, clean \in BOOLEAN : ConnectionLost(c, clean)

ConsumerLost == \E clean \in BOOLEAN : ConnectionLost(ConsumerId, clean)

HandlerExit == \E c \in Clients : HandlerFinally(c)

ConsumerStep ==
  \/ ConsumerConnect
  \/ ConsumerConnectFail
  \/ SleepDone
  \/ ConsumerExit
  \/ ConsumerRecv
  \/ ConsumerStop

\* the store sink alone: no viewer ever connects
NextStore == DispatchStart \/ DispatchResult \/ DispatchStop

SpecStore == Init /\ [][NextStore]_vars

\* the broadcast server and its viewers
NextWS ==
  \/ DispatchOk
  \/ RunTask
  \/ ViewerConnect
  \/ ViewerLost
  \/ HandlerExit

SpecWS == Init /\ [][NextWS]_vars

\* the consumer attached to the broadcast server
NextCons ==
  \/ DispatchOk
  \/ RunTask
  \/ ConsumerLost
  \/ HandlerExit
  \/ ConsumerStep

SpecCons == Init /\ [][NextCons]_vars

\* the same, the event loop running every coroutine that is ready: the
\* consumer's start(), the publish_ws tasks and the connection handlers. What
\* the instrument sends, the closures of the connection and the call of stop()
\* are not owed to anyone.
ConsumerRuns ==
  \/ ConsumerConnect
  \/ ConsumerConnectFail
  \/ SleepDone
  \/ ConsumerExit
  \/ ConsumerRecv

SpecConsFair ==
  /\ Init /\ [][NextCons]_vars
  /\ WF_vars(ConsumerRuns) /\ WF_vars(RunTask) /\ WF_vars(HandlerExit)

\* a store whose backend calls may fail, with one viewer
NextIso ==
  \/ DispatchOk
  \/ DispatchFail
  \/ RunTask
  \/ OneViewerConnect
  \/ ViewerLost
  \/ HandlerExit

SpecIso == Init /\ [][NextIso]_vars

Next == NextStore \/ NextWS \/ NextCons \/ NextIso

Spec == Init /\ [][Next]_vars

\* ------------------------------------------------------------ helpers
\* the messages of event e on c's connection, in the order they were sent
MsgsOf(c, e) == LET Of(m) == m.ev = e IN SelectSeq(sent[c], Of)

KindsOf(c, e) == [i \in 1..Len(MsgsOf(c, e)) |-> MsgsOf(c, e)[i].kind]

Pending(c, e) ==
  \E t \in tasks : t.client = c /\ t.cid = connId[c] /\ t.ev = e

IsResult(e) == e \in 1..nEvents /\ events[e].kind = "result"

\* the first Result after a Start
FirstOfRun(e) == IsResult(e) /\ e > 1 /\ events[e - 1].kind = "start"

\* c was in the live set when e was published and its connection still stands
ServedOpen(c, e) ==
  /\ conn[c] = "open" /\ joinedAt[c] < e /\ e <= nEvents
  /\ ~Pending(c, e) /\ <<c, e>> \notin failed

\* ------------------------------------------------------------- claims
\* C1: every append to an array entity is patched at an offset equal to the
\* entity's current leading-axis length, so no array of the store ever holds
\* an unwritten slice (no gaps, no overwrites, no reordering).
C1_AppendOffset ==
  /\ \A a \in ArrayNames :
       lastPatches[a] # <<>> => lastPatches[a][1] = lastPatches[a][2]
  /\ \A s \in ScanNames, a \in ArrayNames :
       \A i \in 1..Len(store[s].arr[a]) : store[s].arr[a][i] # Gap

\* C2: a Result dispatched while the dispatcher is Idle mutates nothing in the
\* store, hands no send to the broadcast server and does not raise.
C2_IdleResultIgnored ==
  [][(/\ nEvents' = nEvents + 1
      /\ events'[nEvents'].kind = "result"
      /\ runState = "Idle")
     => (store' = store /\ tasks' = tasks /\ tiledOutcome' = "ok")]_vars

\* C3 as stated: the first Result after a Start is never broadcast (0 messages
\* for the first Frame of a run).
C3_WarmUpNotBroadcast ==
  \A c \in Clients : \A i \in 1..Len(sent[c]) :
    sent[c][i].kind \in {"meta", "bin"} => ~FirstOfRun(sent[c][i].ev)

\* C3 amended: the first Result after a Start, and the Result after it, are
\* each broadcast as exactly two messages (metadata, then binary) to every
\* viewer connected throughout; there is no warm-up on the broadcast side.
C3_FirstFrameBroadcast ==
  \A c \in Viewers, e \in 1..nEvents :
    (/\ FirstOfRun(e) \/ (e > 2 /\ FirstOfRun(e - 1) /\ IsResult(e))
     /\ ServedOpen(c, e))
    => KindsOf(c, e) = <<"meta", "bin">>

C3_Witness ==
  /\ nEvents = 3
  /\ events[1].kind = "start" /\ events[2].kind = "result"
  /\ events[3].kind = "result"
  /\ \A c \in Viewers :
       /\ joinedAt[c] = 0 /\ ServedOpen(c, 2) /\ ServedOpen(c, 3)
       /\ Len(MsgsOf(c, 2)) = 2 /\ Len(MsgsOf(c, 3)) = 2

C5_MetaThenBinary ==
  \A c \in Viewers, e \in 1..nEvents :
    IsResult(e) =>
      /\ KindsOf(c, e) \in {<<>>, <<"meta">>, <<"meta", "bin">>}
      /\ ServedOpen(c, e) => KindsOf(c, e) = <<"meta", "bin">>

C5_Witness ==
  \E c \in Viewers, e \in 1..nEvents :
    /\ IsResult(e) /\ ~FirstOfRun(e) /\ ServedOpen(c, e)
    /\ KindsOf(c, e) = <<"meta", "bin">>

\* C6: a failed or unfinished send to one viewer neither blocks nor prevents
\* the delivery of the same event to another viewer (every pending task can
\* run), and nothing of it reaches the dispatcher.
C6_ViewerIsolation ==
  /\ \A t \in tasks : ENABLED TaskStep(t)
  /\ wsOutcome = "ok"
  /\ \A c \in Viewers, d \in Viewers, e \in 1..nEvents :
       (/\ d # c
        /\ <<d, e>> \in failed \/ Pending(d, e)
        /\ ServedOpen(c, e))
       => KindsOf(c, e) = CASE events[e].kind = "result" -> <<"meta", "bin">>
                            [] events[e].kind = "start" -> <<"start">>
                            [] OTHER -> <<>>

C6_Witness ==
  \E c \in Viewers, d \in Viewers, e \in 1..nEvents :
    /\ d # c /\ IsResult(e) /\ <<d, e>> \in failed
    /\ ServedOpen(c, e) /\ KindsOf(c, e) = <<"meta", "bin">>

\* a viewer that connected after a Start and before any Result of that run
LateJoiner(c) ==
  /\ conn[c] # "closed" /\ joinedAt[c] >= 1
  /\ events[joinedAt[c]].kind = "start"

\* C7: a late joiner is sent nothing of the events before it connected (no
\* retroactive Start metadata), and the first thing it is sent is the pair
\* metadata, binary of the next Result.
C7_LateJoiner ==
  \A c \in Viewers :
    LateJoiner(c) =>
      /\ \A i \in 1..Len(sent[c]) : sent[c][i].ev > joinedAt[c]
      /\ LET e == joinedAt[c] + 1 IN
           (IsResult(e) /\ ServedOpen(c, e)) =>
             /\ KindsOf(c, e) = <<"meta", "bin">>
             /\ sent[c][1].kind = "meta" /\ sent[c][1].ev = e

C7_Witness ==
  \E c \in Viewers :
    /\ LateJoiner(c) /\ IsResult(joinedAt[c] + 1)
    /\ ServedOpen(c, joinedAt[c] + 1) /\ Len(sent[c]) >= 2

\* the consumer has just handled a Start header
JustHandledStart ==
  /\ cpc = "connected"
  /\ rcv \in 1..Len(sent[ConsumerId])
  /\ sent[ConsumerId][rcv].kind = "start"
  /\ handled = "start"

\* C8: on a Start header the consumer's scan name and store base address are
\* the header's and frame_counter is 0, whatever the counter was before, so
\* the frame events emitted since the last Start header are numbered from 0.
C8_StartResetsSession ==
  /\ JustHandledStart =>
       /\ frame_counter = 0
       /\ current_scan_name = sent[ConsumerId][rcv].scan
       /\ current_tiled_url = TiledUri
  /\ sawStart =>
       /\ frame_counter = Len(emitted)
       /\ emitted # <<>> => emitted[1].frame_number = 0

\* the consumer got event 1 on its first connection, lost it, reconnected and
\* then got the Start of event 2 and the Result of event 3
C8_Witness ==
  /\ connId[ConsumerId] = 2 /\ joinedAt[ConsumerId] = 1
  /\ nEvents = 3 /\ events[2].kind = "start"
  /\ sawStart /\ counterAtStart = 1
  /\ Len(emitted) = 1 /\ emitted[1].frame_number = 0 /\ emitted[1].ev = 3

\* C9: every connection attempt that follows the end of a connection, or a
\* failed attempt, with no stop requested comes after the fixed delay.
C9_DelayBeforeReconnect == ~undelayedAttempt

\* C10: the locator of every emitted frame event addresses the slice of the
\* store's shot_mean array of its scan in which that Frame was persisted.
C10_LocatorAddressesFrame ==
  \A i \in 1..Len(emitted) :
    LET f == emitted[i] IN
      /\ f.base = TiledUri
      /\ f.scan \in ScanNames
      /\ f.hi = f.lo + 1
      /\ f.lo + 1 <= Len(store[f.scan].arr["shot_mean"])
      /\ store[f.scan].arr["shot_mean"][f.lo + 1] = f.ev

\* C11: on every viewer connection the messages of an event are all sent
\* before any message of a later event: the events of the messages sent so far
\* never decrease, and no message of a later event is sent while a send of an
\* earlier event to the same connection is still pending.
C11_NoInterleaving ==
  \A c \in Viewers :
    /\ \A i \in 1..Len(sent[c]), j \in 1..Len(sent[c]) :
         i < j => sent[c][i].ev <= sent[c][j].ev
    /\ \A t \in tasks :
         (t.client = c /\ t.cid = connId[c] /\ conn[c] = "open")
         => \A i \in 1..Len(sent[c]) : sent[c][i].ev <= t.ev

\* the store sink holds the context of the run the dispatcher is in
HoldsCurrentRun ==
  /\ runState = "Active"
  /\ ~current_tiled_scan.none
  /\ current_tiled_scan.run_node = runScan

\* C12: entity creation runs on the first Result after a Start and on no
\* later Result of the same run; every later Result of the run is an append
\* that creates or replaces no entity of the run's node.
C12_CreateOncePerRun ==
  [][(/\ nEvents' = nEvents + 1
      /\ events'[nEvents'].kind = "result"
      /\ HoldsCurrentRun)
     => /\ (lastOp' = "create") <=> (events[nEvents].kind = "start")
        /\ (events[nEvents].kind = "result")
             => (/\ lastOp' = "append"
                 /\ store'[runScan].keys = store[runScan].keys)]_vars

\* the broadcast of the latest event has taken its first step for every client
\* it was handed to
BroadcastBegun == \A t \in tasks : ~(t.ev = nEvents /\ t.pc = "new")

\* C13: once a Start has been broadcast the server's current start context is
\* that Start; once a Stop has been broadcast the context is cleared and no
\* message of the Stop was sent to any viewer; with any number of viewers
\* connected, zero included.
C13_SnapshotLifecycle ==
  (nEvents >= 1 /\ BroadcastBegun) =>
    /\ (events[nEvents].kind = "start") =>
         current_start_message =
           [scan_name |-> events[nEvents].scan, ev |-> nEvents]
    /\ (events[nEvents].kind = "stop") =>
         /\ current_start_message = NoStart
         /\ \A c \in Clients : MsgsOf(c, nEvents) = <<>>

\* the latest Start before event e (0: none)
LastStart(e) ==
  LET S == {k \in 1..(e - 1) : events[k].kind = "start"} IN
    IF S = {} THEN 0 ELSE CHOOSE k \in S : \A j \in S : j <= k

\* event e lies between a Start and the Stop that follows it
InRun(e) ==
  /\ LastStart(e) > 0
  /\ \A k \in (LastStart(e) + 1)..(e - 1) : events[k].kind # "stop"

\* C14: the metadata message of every Result sent to a viewer between a Start
\* and the following Stop carries the scan name of that Start, whether or not
\* a viewer was connected when the Start was broadcast.
C14_MetaCarriesRunScan ==
  \A c \in Viewers : \A i \in 1..Len(sent[c]) :
    (sent[c][i].kind = "meta" /\ InRun(sent[c][i].ev))
    => sent[c][i].scan = events[LastStart(sent[c][i].ev)].scan

\* the connections whose handler has added them and not yet removed them: the
\* open ones and those whose closure the handler has still to return from
Live == {c \in Clients : conn[c] # "closed"}

C16_StartReplacesRun ==
  [][(nEvents' = nEvents + 1 /\ nFail' = 0) =>
       /\ (events'[nEvents'].kind = "start" /\ runState = "Active") =>
            /\ tiledOutcome' = "ok"
            /\ current_tiled_scan' =
                 [none |-> FALSE, run_node |-> events'[nEvents'].scan,
                  handles |-> {}]
       /\ (/\ events'[nEvents'].kind = "result" /\ nEvents >= 2
           /\ events[nEvents].kind = "start" /\ InRun(nEvents)) =>
            /\ tiledOutcome' = "ok" /\ lastOp' = "create"
            /\ current_tiled_scan'.handles = EntityNames
            /\ EntityNames \subseteq store'[runScan].keys
       /\ (events'[nEvents'].kind = "result" /\ runState = "Active") =>
            \A s \in ScanNames \ {runScan} : store'[s] = store[s]]_vars

\* C17: with no backend error, a Stop received while a run is Active writes
\* the function_timings table once under that run's node and leaves the store
\* sink without a current run context; a Stop received while Idle writes
\* nothing and leaves the sink without a context.
C17_FinalizeOnStop ==
  [][(/\ nEvents' = nEvents + 1 /\ nFail' = 0
      /\ events'[nEvents'].kind = "stop") =>
       IF runState = "Active"
         THEN /\ store'[runScan].timings = store[runScan].timings + 1
              /\ "function_timings" \in store'[runScan].keys
              /\ \A s \in ScanNames \ {runScan} : store'[s] = store[s]
              /\ current_tiled_scan' = NoScan
         ELSE /\ store' = store
              /\ current_tiled_scan' = NoScan]_vars

\* a step of the receive loop that handled a message
HandledOne == rcv' = rcv + 1 /\ ~should_stop

\* C18: the k-th frame event emitted since the last Start header carries
\* frame_number k - 1; frame_counter grows by exactly one with every binary
\* message that holds a sample, whether operator.process returns or raises,
\* and is left as it was by a text message without a start marker and by a
\* discarded or undecodable message.
C18_FrameNumbering ==
  /\ [](\A k \in 1..Len(emitted) : emitted[k].frame_number = k - 1)
  /\ [][HandledOne =>
          /\ (handled' \in {"emit", "emit_raised"}) =>
               /\ frame_counter' = frame_counter + 1
               /\ Len(emitted') = Len(emitted) + 1
          /\ (handled' \in {"meta", "discard", "raised"}) =>
               /\ frame_counter' = frame_counter
               /\ emitted' = emitted]_vars

\* after a Start header two frames were emitted, operator.process raising on
\* the second
C18_Witness ==
  /\ sawStart /\ cpc = "connected"
  /\ handled = "emit_raised"
  /\ Len(emitted) = 2 /\ frame_counter = 2
  /\ emitted[2].frame_number = 1

\* C19: a message whose handling fails (undecodable, no sample or dimensions,
\* operator.process raising) is the only thing lost: the consumer stays in the
\* receive loop of the same connection, no delay or reconnect is started, a
\* discarded or undecodable message changes nothing of the session, and the
\* next message of the connection is received and handled.
C19_MessageErrorIsolated ==
  /\ [][(HandledOne /\ handled' \in {"raised", "discard", "emit_raised"}) =>
          /\ cpc' = "connected"
          /\ conn' = conn /\ connId' = connId /\ nConn' = nConn
          /\ needDelay' = needDelay /\ undelayedAttempt' = undelayedAttempt
          /\ (handled' \in {"raised", "discard"}) =>
               UNCHANGED <<current_scan_name, current_tiled_url,
                           frame_counter, emitted>>]_vars
  /\ []((/\ cpc = "connected" /\ rcv < Len(sent[ConsumerId])
         /\ handled \in {"raised", "discard", "emit_raised"})
        => ENABLED ConsumerRecv)

\* on its first connection the consumer got a Start and two Results: the
\* Frame of the first was lost to a failure, the Frame of the second was
\* emitted as frame 0 on the same connection
C19_Witness ==
  /\ nConn = 1 /\ connId[ConsumerId] = 1 /\ conn[ConsumerId] = "open"
  /\ cpc = "connected" /\ ~needDelay
  /\ nEvents = 3 /\ rcv = 5 /\ Len(sent[ConsumerId]) = 5
  /\ sent[ConsumerId][1].kind = "start"
  /\ handled = "emit"
  /\ Len(emitted) = 1 /\ emitted[1].ev = 3 /\ emitted[1].frame_number = 0

\* C20: once the stop flag is set the consumer handles no further message and
\* makes no further connection attempt, and start() eventually returns, from
\* an open connection, an idle one included, and from the backoff wait alike.
C20_GracefulStop ==
  /\ [][should_stop =>
          /\ UNCHANGED <<current_scan_name, current_tiled_url, frame_counter,
                         emitted, handled>>
          /\ connId'[ConsumerId] = connId[ConsumerId]
          /\ (cpc' = "connected") => (cpc = "connected")]_vars
  /\ should_stop ~> (cpc = "done")

\* the Starts dispatched so far that named scan s
StartsOf(s) ==
  {k \in 1..nEvents : events[k].kind = "start" /\ events[k].scan = s}

\* C21: a Start for a scan name the store root already holds returns that run
\* node and changes nothing in the store; a Start for a new name creates that
\* one node and no other; a Start whose backend call fails creates nothing. So
\* the root holds a run node only for names some Start gave, and, no backend
\* call having failed, for every such name.
C21_StartIdempotentByName ==
  /\ [](\A s \in ScanNames :
          /\ store[s].exists => StartsOf(s) # {}
          /\ (nFail = 0 /\ StartsOf(s) # {}) => store[s].exists)
  /\ [][(nEvents' = nEvents + 1 /\ events'[nEvents'].kind = "start") =>
          LET s == events'[nEvents'].scan IN
            IF tiledOutcome' = "ok"
              THEN /\ store'[s].exists
                   /\ current_tiled_scan'.run_node = s
                   /\ \A o \in ScanNames \ {s} : store'[o] = store[o]
                   /\ store[s].exists => store' = store
                   /\ ~store[s].exists =>
                        store'[s] = [EmptyNode EXCEPT !.exists = TRUE]
              ELSE store' = store]_vars

\* a Start has just been handled for a name an earlier Start gave, whose run
\* node already held entities
C21_Witness ==
  /\ nEvents >= 3 /\ lastOp = "start" /\ tiledOutcome = "ok"
  /\ events[nEvents].kind = "start"
  /\ Cardinality(StartsOf(events[nEvents].scan)) >= 2
  /\ store[events[nEvents].scan].keys # {}
  /\ current_tiled_scan.run_node = events[nEvents].scan

\* C22: whenever the store sink appends for a Result, every entity handle of
\* the current run is set: no Result is appended to a partially initialised
\* entity set.
C22_EntitySetComplete ==
  lastOp = "append" => current_tiled_scan.handles = EntityNames

====
